---- MODULE Spec2Model ----
(***************************************************************************)
(* Model of Tiled's ScriptedTool (src/tiled/scriptedtool.cpp): the adapter *)
(* that forwards the tool events of the editor to optional hooks of a      *)
(* script object.  The host is single threaded: every handler runs to      *)
(* completion, so each handler is one action.  What a handler does on the  *)
(* way (framework calls, property lookups, script invocations, error       *)
(* reports) is recorded, in order, in the variable log.                    *)
(***************************************************************************)
EXTENDS Integers, Sequences, FiniteSets, TLC

\* ---------------------------------------------------------------- bounds
MaxProps == 2       \* a script object defines at most this many properties
NumScenes == 1      \* map scenes 1..NumScenes
NumDocs == 1        \* map documents 1..NumDocs

\* ------------------------------------------------------------ input sets
nullptr == 0
Scenes == 1..NumScenes
Docs == 1..NumDocs
DocPtrs == {nullptr} \cup Docs
Positions == {<<0, 1>>, <<1, 0>>}   \* sample (x, y) positions
Modifiers == {0, 1}                 \* sample modifier masks
Keys == {65, 66}            \* Qt::Key_A, Qt::Key_B
Buttons == {1, 2}           \* Qt::LeftButton, Qt::RightButton
Results == {"ok", "error"}  \* what a script function evaluates to

\* The property names the adapter looks up on the script object.
HookNames ==
  {"activated", "deactivated", "keyPressed", "mouseEntered", "mouseLeft",
   "mouseMoved", "mousePressed", "mouseReleased", "mouseDoubleClicked",
   "modifiersChanged", "languageChanged", "mapChanged",
   "tilePositionChanged", "updateEnabledState"}
PropNames == HookNames \cup {"name"}

\* ------------------------------------------------- script (QJSValue) values
\* A property value has a type t and, when it is a string, its text s.
Undefined == [t |-> "undefined", s |-> ""]
NumberProp == [t |-> "number", s |-> ""]
FunctionProp == [t |-> "function", s |-> ""]
StringProp(str) == [t |-> "string", s |-> str]
NameStrings == {"", "brush"}
PropValues(p) ==
  IF p = "name"
  THEN {Undefined, NumberProp} \cup {StringProp(str) : str \in NameStrings}
  ELSE {Undefined, NumberProp, FunctionProp}

Defined(obj) == {p \in PropNames : obj[p] # Undefined}
\* The script objects of the model: every assignment of values to the
\* property names that defines at most MaxProps of them.
ScriptObjects ==
  UNION { { [p \in PropNames |->
               IF p \in D THEN f[p] ELSE Undefined] :
            f \in {g \in [D -> {NumberProp, FunctionProp, StringProp(""),
                                  StringProp("brush")}] :
                     \A p \in D : g[p] \in PropValues(p)} }
          : D \in {E \in SUBSET PropNames : Cardinality(E) <= MaxProps} }

\* An argument passed to a script function: a number, null or the wrapper
\* of a QObject.
JSNumber(n) == [t |-> "number", v |-> n]
NullValue == [t |-> "null", v |-> 0]
newQObject(obj) == [t |-> obj.class, v |-> obj.of]

\* ------------------------------------------------------------------ state
VARIABLES
  phase,          \* "script": object offered; "validated"; "live": tool
                  \* built, host in its event loop; "handled": a handler
                  \* has just returned
  value,          \* the script object offered for registration
  validation,     \* what validateToolObject returned, and the errors it threw
  mScriptObject,  \* ScriptedTool::mScriptObject
  mScene,         \* ScriptedTool::mScene (nullptr when none)
  mName,          \* the tool's name (AbstractTool's name, set by setName)
  event,          \* the last host event: its kind, inputs, scene before it
  log             \* what the handler of the last event did, in order

vars == <<phase, value, validation, mScriptObject, mScene, mName, event, log>>

\* The tool while a handler runs: its fields and the log so far.
This == [mScriptObject |-> mScriptObject, mScene |-> mScene,
         mName |-> mName, log |-> <<>>]

\* One step of a handler, with the scene and the name as they are then.
Entry(self, op, what, args, res) ==
  [op |-> op, what |-> what, args |-> args, res |-> res,
   scene |-> self.mScene, name |-> self.mName]
Record(self, op, what, args, res) ==
  [self EXCEPT !.log = Append(@, Entry(self, op, what, args, res))]

\* A call into the framework (a base-class method, or a method of the tool
\* that this file does not override).
Framework(self, what) == Record(self, "framework", what, <<>>, "")

\* QJSValue::property, isCallable, isString.
property(obj, propName) == obj[propName]
\* Mutant: anything that is defined counts as callable.
isCallable_defined(v) == v.t # "undefined"
isCallable(v) == v.t = "function"
isString(v) == v.t = "string"

\* ScriptedTool::call: look the method up on the script object; when it is
\* callable, invoke it with the tool as receiver and hand the result to
\* ScriptManager::checkError.  result is what the script function evaluates
\* to.  Yields the tool afterwards and the value returned.
\* Mutant: the result of the script function is not handed to checkError.
call_unchecked(self, methodName, args, result) ==
  LET method == property(self.mScriptObject, methodName)
      looked == Record(self, "lookup", methodName, <<>>, method.t)
  IN  IF method.t = "function"
      THEN LET called == Record(looked, "invoke", methodName, args, result)
           IN  [self |-> Record(called, "return", methodName, <<>>, "true"),
                ret |-> TRUE]
      ELSE [self |-> Record(looked, "return", methodName, <<>>, "false"),
            ret |-> FALSE]
call(self, methodName, args, result) ==
  LET method == property(self.mScriptObject, methodName)
      looked == Record(self, "lookup", methodName, <<>>, method.t)
  IN  IF isCallable(method)
      THEN LET called == Record(looked, "invoke", methodName, args, result)
               checked == Record(called, "checkError", methodName, <<>>, result)
           IN  [self |-> Record(checked, "return", methodName, <<>>, "true"),
                ret |-> TRUE]
      ELSE [self |-> Record(looked, "return", methodName, <<>>, "false"),
            ret |-> FALSE]

\* ------------------------------------------------------------- the handlers
\* Each handler maps the tool before the event to the tool after it.
activate(self, scene, result) ==
  LET based == Framework(self, "AbstractTileTool::activate")
      stored == [based EXCEPT !.mScene = scene]
  IN  call(stored, "activated", <<>>, result).self

\* Mutant: the scene is cleared before the hook is invoked.
deactivate_clearsFirst(self, scene, result) ==
  LET based == Framework(self, "AbstractTileTool::deactivate")
      cleared == [based EXCEPT !.mScene = nullptr]
  IN  call(cleared, "deactivated", <<>>, result).self
deactivate(self, scene, result) ==
  LET based == Framework(self, "AbstractTileTool::deactivate")
      called == call(based, "deactivated", <<>>, result).self
  IN  [called EXCEPT !.mScene = nullptr]

keyPressed(self, key, modifiers, result) ==
  call(self, "keyPressed", <<JSNumber(key), JSNumber(modifiers)>>, result).self

mouseEntered(self, result) ==
  call(Framework(self, "AbstractTileTool::mouseEntered"),
       "mouseEntered", <<>>, result).self

mouseLeft(self, result) ==
  call(Framework(self, "AbstractTileTool::mouseLeft"),
       "mouseEntered", <<>>, result).self

\* Mutant: the framework's handler runs only when there is no hook.
mouseMoved_fallback(self, pos, modifiers, result) ==
  LET c == call(self, "mouseMoved",
                <<JSNumber(pos[1]), JSNumber(pos[2]), JSNumber(modifiers)>>,
                result)
  IN  IF ~c.ret
      THEN Framework(c.self, "AbstractTileTool::mouseMoved")
      ELSE c.self
mouseMoved(self, pos, modifiers, result) ==
  call(Framework(self, "AbstractTileTool::mouseMoved"), "mouseMoved",
       <<JSNumber(pos[1]), JSNumber(pos[2]), JSNumber(modifiers)>>,
       result).self

\* The argument list built from a QGraphicsSceneMouseEvent.
mouseArgs(button, pos, modifiers) ==
  <<JSNumber(button), JSNumber(pos[1]), JSNumber(pos[2]), JSNumber(modifiers)>>

mousePressed(self, button, pos, modifiers, result) ==
  call(self, "mousePressed", mouseArgs(button, pos, modifiers), result).self

mouseReleased(self, button, pos, modifiers, result) ==
  call(self, "mouseReleased", mouseArgs(button, pos, modifiers), result).self

\* Mutant: the double-click is always passed on as a mouse press too.
mouseDoubleClicked_both(self, button, pos, modifiers, result, result2) ==
  mousePressed(call(self, "mouseDoubleClicked",
                    mouseArgs(button, pos, modifiers), result).self,
               button, pos, modifiers, result2)
\* result is what mouseDoubleClicked evaluates to, result2 what mousePressed
\* does when the event falls through to it.
mouseDoubleClicked(self, button, pos, modifiers, result, result2) ==
  LET c == call(self, "mouseDoubleClicked",
                mouseArgs(button, pos, modifiers), result)
  IN  IF ~c.ret
      THEN mousePressed(c.self, button, pos, modifiers, result2)
      ELSE c.self

modifiersChanged(self, modifiers, result) ==
  call(self, "modifiersChanged", <<JSNumber(modifiers)>>, result).self

languageChanged(self, result) ==
  call(self, "languageChanged", <<>>, result).self

\* MapDocument::editable: the editable map of a document, one per document.
editable(document) == [class |-> "EditableMap", of |-> document]

\* Mutant: the two maps are passed in the other order.
mapDocumentChanged_swapped(self, oldDocument, newDocument, result) ==
  LET based == Framework(self, "AbstractTileTool::mapDocumentChanged")
      args == << IF newDocument # nullptr
                 THEN newQObject(editable(newDocument)) ELSE NullValue,
                 IF oldDocument # nullptr
                 THEN newQObject(editable(oldDocument)) ELSE NullValue >>
  IN  call(based, "mapChanged", args, result).self
mapDocumentChanged(self, oldDocument, newDocument, result) ==
  LET based == Framework(self, "AbstractTileTool::mapDocumentChanged")
      args == << IF oldDocument # nullptr
                 THEN newQObject(editable(oldDocument)) ELSE NullValue,
                 IF newDocument # nullptr
                 THEN newQObject(editable(newDocument)) ELSE NullValue >>
  IN  call(based, "mapChanged", args, result).self

tilePositionChanged(self, tilePos, result) ==
  call(self, "tilePositionChanged",
       <<JSNumber(tilePos[1]), JSNumber(tilePos[2])>>, result).self

\* Mutant: the default enabled state is computed in every case.
updateEnabledState_always(self, result) ==
  Framework(Framework(call(self, "updateEnabledState", <<>>, result).self,
                      "AbstractTool::updateEnabledState"),
            "updateBrushVisibility")
updateEnabledState(self, result) ==
  LET c == call(self, "updateEnabledState", <<>>, result)
      defaulted == IF ~c.ret
                   THEN Framework(c.self, "AbstractTool::updateEnabledState")
                   ELSE c.self
  IN  Framework(defaulted, "updateBrushVisibility")

\* ------------------------------------------------------------ registration
InvalidToolObject == "Invalid tool object (requires string 'name' property)"

\* ScriptedTool::validateToolObject: what it returns and the script errors
\* it throws through ScriptManager::throwError.
\* Mutant: any 'name' that is defined is accepted.
validateToolObject_defined(val) ==
  LET nameProperty == property(val, "name")
  IN  IF nameProperty.t = "undefined"
      THEN [ret |-> FALSE, thrown |-> <<InvalidToolObject>>]
      ELSE [ret |-> TRUE, thrown |-> <<>>]
validateToolObject(val) ==
  LET nameProperty == property(val, "name")
  IN  IF ~isString(nameProperty)
      THEN [ret |-> FALSE, thrown |-> <<InvalidToolObject>>]
      ELSE [ret |-> TRUE, thrown |-> <<>>]

UnnamedTool == "<unnamed tool>"

\* Mutant: any string names the tool, the empty one too.
ScriptedTool_anyString(object) ==
  LET nameProperty == property(object, "name")
  IN  IF nameProperty.t = "string" THEN nameProperty.s ELSE UnnamedTool
\* The constructor: the name the tool gets from the object.
ScriptedTool(object) ==
  LET nameProperty == property(object, "name")
  IN  IF isString(nameProperty) /\ nameProperty.s # ""
      THEN nameProperty.s
      ELSE UnnamedTool

NoObject == [p \in PropNames |-> Undefined]
NoEvent == [kind |-> "none", in |-> <<>>, before |-> nullptr]
NotValidated == [done |-> FALSE, ret |-> FALSE, thrown |-> <<>>]

Init ==
  /\ phase = "script"
  /\ value \in ScriptObjects
  /\ validation = NotValidated
  /\ mScriptObject = NoObject
  /\ mScene = nullptr
  /\ mName = ""
  /\ event = NoEvent
  /\ log = <<>>

\* The script offers the object for registration as a tool.
Validate ==
  /\ phase = "script"
  /\ phase' = "validated"
  /\ validation' = [done |-> TRUE,
                     ret |-> validateToolObject(value).ret,
                     thrown |-> validateToolObject(value).thrown]
  /\ UNCHANGED <<value, mScriptObject, mScene, mName, event, log>>

\* The tool is constructed from the object.
Construct ==
  /\ phase = "validated"
  /\ phase' = "live"
  /\ mScriptObject' = value
  /\ mName' = ScriptedTool(value)
  /\ mScene' = nullptr
  /\ UNCHANGED <<value, validation, event, log>>

\* The host fires an event at the tool; after is the tool once the handler
\* has returned.
Dispatch(kind, in, after) ==
  /\ phase = "live"
  /\ phase' = "handled"
  /\ event' = [kind |-> kind, in |-> in, before |-> mScene]
  /\ log' = after.log
  /\ mScriptObject' = after.mScriptObject
  /\ mScene' = after.mScene
  /\ mName' = after.mName
  /\ UNCHANGED <<value, validation>>

\* Back in the host's event loop: the record of the last event is dropped,
\* the tool stays as the handler left it.
EventLoop ==
  /\ phase = "handled"
  /\ phase' = "live"
  /\ event' = NoEvent
  /\ log' = <<>>
  /\ UNCHANGED <<value, validation, mScriptObject, mScene, mName>>

OnActivate ==
  \E scene \in Scenes, r \in Results :
    Dispatch("activate", <<scene>>, activate(This, scene, r))

OnDeactivate ==
  \E scene \in Scenes, r \in Results :
    Dispatch("deactivate", <<scene>>, deactivate(This, scene, r))

OnKeyPressed ==
  \E key \in Keys, m \in Modifiers, r \in Results :
    Dispatch("keyPressed", <<key, m>>, keyPressed(This, key, m, r))

OnMouseEntered ==
  \E r \in Results : Dispatch("mouseEntered", <<>>, mouseEntered(This, r))

OnMouseLeft ==
  \E r \in Results : Dispatch("mouseLeft", <<>>, mouseLeft(This, r))

OnMouseMoved ==
  \E pos \in Positions, m \in Modifiers, r \in Results :
    Dispatch("mouseMoved", <<pos[1], pos[2], m>>, mouseMoved(This, pos, m, r))

OnMousePressed ==
  \E b \in Buttons, pos \in Positions, m \in Modifiers, r \in Results :
    Dispatch("mousePressed", <<b, pos[1], pos[2], m>>,
             mousePressed(This, b, pos, m, r))

OnMouseReleased ==
  \E b \in Buttons, pos \in Positions, m \in Modifiers, r \in Results :
    Dispatch("mouseReleased", <<b, pos[1], pos[2], m>>,
             mouseReleased(This, b, pos, m, r))

OnMouseDoubleClicked ==
  \E b \in Buttons, pos \in Positions, m \in Modifiers,
     r \in Results, r2 \in Results :
    Dispatch("mouseDoubleClicked", <<b, pos[1], pos[2], m>>,
             mouseDoubleClicked(This, b, pos, m, r, r2))

OnModifiersChanged ==
  \E m \in Modifiers, r \in Results :
    Dispatch("modifiersChanged", <<m>>, modifiersChanged(This, m, r))

OnLanguageChanged ==
  \E r \in Results :
    Dispatch("languageChanged", <<>>, languageChanged(This, r))

OnMapDocumentChanged ==
  \E old \in DocPtrs, new \in DocPtrs, r \in Results :
    Dispatch("mapDocumentChanged", <<old, new>>,
             mapDocumentChanged(This, old, new, r))

OnTilePositionChanged ==
  \E tilePos \in Positions, r \in Results :
    Dispatch("tilePositionChanged", <<tilePos[1], tilePos[2]>>,
             tilePositionChanged(This, tilePos, r))

OnUpdateEnabledState ==
  \E r \in Results :
    Dispatch("updateEnabledState", <<>>, updateEnabledState(This, r))

Next ==
  \/ Validate
  \/ Construct
  \/ OnActivate
  \/ OnDeactivate
  \/ OnKeyPressed
  \/ OnMouseEntered
  \/ OnMouseLeft
  \/ OnMouseMoved
  \/ OnMousePressed
  \/ OnMouseReleased
  \/ OnMouseDoubleClicked
  \/ OnModifiersChanged
  \/ OnLanguageChanged
  \/ OnMapDocumentChanged
  \/ OnTilePositionChanged
  \/ OnUpdateEnabledState
  \/ EventLoop

Spec == Init /\ [][Next]_vars

\* ============================================================== properties
\* What the log of the last handler says.
Handled == phase = "handled"
Constructed == phase \in {"live", "handled"}
Steps(op) == {i \in DOMAIN log : log[i].op = op}
Invoked == Steps("invoke")
InvokedHooks == {log[i].what : i \in Invoked}
LookedUp == {log[i].what : i \in Steps("lookup")}
FrameworkCalls == {log[i].what : i \in Steps("framework")}
HasHook(h) == isCallable(mScriptObject[h])

\* The hook that belongs to each kind of host event.
HookOf(kind) ==
  CASE kind = "activate" -> "activated"
    [] kind = "deactivate" -> "deactivated"
    [] kind = "mapDocumentChanged" -> "mapChanged"
    [] OTHER -> kind

\* C1: when an event of kind E fires, the callable hook of E is invoked, and
\* no hook of another kind is (but for a double-click falling through to
\* mousePressed); a mouse-leave event invokes mouseLeft, not mouseEntered.
C1_HookOfTheEvent ==
  Handled =>
    /\ HasHook(HookOf(event.kind)) => HookOf(event.kind) \in InvokedHooks
    /\ \A h \in InvokedHooks :
         \/ h = HookOf(event.kind)
         \/ event.kind = "mouseDoubleClicked" /\ h = "mousePressed"

\* The framework handler each event kind has in the base classes.
DefaultOf(kind) ==
  IF kind = "updateEnabledState"
  THEN "AbstractTool::updateEnabledState"
  ELSE "AbstractTileTool::" \o kind
\* The default handling of the event has run: the framework handler or, for
\* a double-click, the mouse-press path.
DefaultRan ==
  IF event.kind = "mouseDoubleClicked"
  THEN "mousePressed" \in LookedUp
  ELSE DefaultOf(event.kind) \in FrameworkCalls

\* C2 as stated: for every handler the hook is invoked when callable, and
\* the default framework handling is what runs instead when it is not.
C2_DefaultIsTheAlternative ==
  Handled =>
    /\ HasHook(HookOf(event.kind)) =>
         HookOf(event.kind) \in InvokedHooks /\ ~DefaultRan
    /\ ~HasHook(HookOf(event.kind)) => DefaultRan

BaseFirstKinds ==
  {"activate", "deactivate", "mouseEntered", "mouseLeft", "mouseMoved",
   "mapDocumentChanged"}
HookOnlyKinds ==
  {"keyPressed", "mousePressed", "mouseReleased", "modifiersChanged",
   "languageChanged", "tilePositionChanged"}
FirstLookup == log[CHOOSE i \in Steps("lookup") :
                     \A j \in Steps("lookup") : i <= j]

\* C2 (amended): every handler looks a property up and invokes it when it is
\* callable.  The default handling is the alternative to a callable hook
\* only for updateEnabledState (AbstractTool::updateEnabledState) and
\* mouseDoubleClicked (the mouse-press path).  activate, deactivate,
\* mouseEntered, mouseLeft, mouseMoved and mapDocumentChanged run the
\* AbstractTileTool handler first, whether or not the hook is callable;
\* keyPressed, mousePressed, mouseReleased, modifiersChanged,
\* languageChanged and tilePositionChanged run no framework handler at all.
C2_WhereTheDefaultRuns ==
  Handled =>
    /\ Steps("lookup") # {}
    /\ (FirstLookup.res = "function") = (FirstLookup.what \in InvokedHooks)
    /\ event.kind \in BaseFirstKinds =>
         /\ log[1].op = "framework" /\ log[1].what = DefaultOf(event.kind)
         /\ Steps("framework") = {1}
    /\ event.kind \in HookOnlyKinds =>
         Steps("framework") = {} /\ Cardinality(Steps("lookup")) = 1
    /\ event.kind = "updateEnabledState" =>
         DefaultRan = (FirstLookup.res # "function")
    /\ event.kind = "mouseDoubleClicked" =>
         /\ Steps("framework") = {}
         /\ DefaultRan = (FirstLookup.res # "function")

\* A mouse move on an object without a mouseMoved hook: the framework's
\* handler ran all the same and no script did.
C2_Witness ==
  /\ Handled /\ event.kind = "mouseMoved" /\ ~HasHook("mouseMoved")
  /\ FrameworkCalls = {"AbstractTileTool::mouseMoved"}
  /\ InvokedHooks = {}

\* C3: every invocation of a hook is followed at once by exactly one
\* checkError of its result, before call returns and so before any other
\* hook runs; no result is dropped and nothing else is reported.
C3_EveryResultChecked ==
  Handled =>
    /\ \A i \in Invoked :
         /\ i + 2 \in DOMAIN log
         /\ log[i + 1].op = "checkError"
         /\ log[i + 1].res = log[i].res
         /\ log[i + 2].op = "return" /\ log[i + 2].res = "true"
    /\ \A j \in Steps("checkError") : j - 1 \in Invoked

\* A hook evaluated to an error and the error was reported.
C3_Witness ==
  /\ Handled
  /\ \E i \in Invoked :
       log[i].res = "error" /\ log[i + 1].op = "checkError"
                            /\ log[i + 1].res = "error"

\* C4: a lookup that finds no callable property makes call return false at
\* once: no script runs, nothing is reported, and the scene, the name and
\* the script object of the tool are as before.
C4_MissingHookIsNoError ==
  Handled =>
    /\ \A i \in Steps("lookup") :
         log[i].res # "function" =>
           /\ i + 1 \in DOMAIN log
           /\ log[i + 1].op = "return" /\ log[i + 1].res = "false"
           /\ log[i + 1].scene = log[i].scene
           /\ log[i + 1].name = log[i].name
    /\ \A i \in Steps("lookup") : log[i].res = mScriptObject[log[i].what].t
    /\ mScriptObject = value

\* A property that is there but is no function was looked up.
C4_Witness ==
  /\ Handled
  /\ \E i \in Steps("lookup") : log[i].res = "number"
  /\ Invoked = {} /\ Steps("checkError") = {}

\* C5: validateToolObject returns false and throws exactly one error when
\* the 'name' property is missing or is no string, and returns true and
\* throws nothing when it is a string.
C5_ValidationRejectsNonStringName ==
  validation.done =>
    IF value["name"].t = "string"
    THEN validation.ret /\ validation.thrown = <<>>
    ELSE ~validation.ret /\ validation.thrown = <<InvalidToolObject>>

\* An object whose 'name' is a number was rejected with one error.
C5_Witness ==
  /\ validation.done /\ value["name"].t = "number"
  /\ ~validation.ret /\ Len(validation.thrown) = 1

\* The arguments a mouse hook gets for the event.
EventMouseArgs ==
  <<JSNumber(event.in[1]), JSNumber(event.in[2]),
    JSNumber(event.in[3]), JSNumber(event.in[4])>>

\* C6: a double-click takes exactly one path.  With a callable
\* mouseDoubleClicked that hook gets (button, x, y, modifiers) and
\* mousePressed is not looked at, whatever the hook evaluates to; without
\* one the event is a mouse press: mousePressed, if callable, gets the same
\* arguments.  At most one hook is invoked.
C6_DoubleClickTakesOnePath ==
  Handled /\ event.kind = "mouseDoubleClicked" =>
    /\ Cardinality(Invoked) <= 1
    /\ \A i \in Invoked : log[i].args = EventMouseArgs
    /\ IF HasHook("mouseDoubleClicked")
       THEN InvokedHooks = {"mouseDoubleClicked"}
            /\ "mousePressed" \notin LookedUp
       ELSE /\ "mousePressed" \in LookedUp
            /\ InvokedHooks =
                 IF HasHook("mousePressed") THEN {"mousePressed"} ELSE {}

\* Both hooks are there, mouseDoubleClicked evaluated to an error, and the
\* press path was not taken.
C6_Witness ==
  /\ Handled /\ event.kind = "mouseDoubleClicked"
  /\ HasHook("mouseDoubleClicked") /\ HasHook("mousePressed")
  /\ \E i \in Invoked : log[i].what = "mouseDoubleClicked"
                         /\ log[i].res = "error"
  /\ "mousePressed" \notin LookedUp

\* C7: on updateEnabledState, AbstractTool::updateEnabledState runs exactly
\* when there is no callable hook (a hook that evaluates to an error still
\* suppresses it), AbstractTileTool's version never runs, and
\* updateBrushVisibility runs once, last.
C7_EnabledStateDefault ==
  Handled /\ event.kind = "updateEnabledState" =>
    /\ ("AbstractTool::updateEnabledState" \in FrameworkCalls)
         = ~HasHook("updateEnabledState")
    /\ "AbstractTileTool::updateEnabledState" \notin FrameworkCalls
    /\ log[Len(log)].op = "framework"
    /\ log[Len(log)].what = "updateBrushVisibility"
    /\ Cardinality({i \in Steps("framework") :
                      log[i].what = "updateBrushVisibility"}) = 1
    /\ Cardinality({i \in Steps("framework") :
                      log[i].what = "AbstractTool::updateEnabledState"}) <= 1

\* The hook evaluated to an error and the default did not run.
C7_Witness ==
  /\ Handled /\ event.kind = "updateEnabledState"
  /\ \E i \in Invoked : log[i].res = "error"
  /\ FrameworkCalls = {"updateBrushVisibility"}

\* The value the mapChanged hook gets for a document.
MapArg(document) ==
  IF document = nullptr THEN NullValue
  ELSE [t |-> "EditableMap", v |-> document]

\* C8: mapChanged gets (old map, new map), in that order, each null exactly
\* when the document is absent and else the wrapper of the document's
\* editable map; the framework's mapDocumentChanged runs before the hook.
C8_MapChangedArguments ==
  Handled /\ event.kind = "mapDocumentChanged" =>
    /\ HasHook("mapChanged") => Cardinality(Invoked) = 1
    /\ \A i \in Invoked :
         /\ log[i].what = "mapChanged"
         /\ log[i].args = <<MapArg(event.in[1]), MapArg(event.in[2])>>
         /\ (log[i].args[1] = NullValue) = (event.in[1] = nullptr)
         /\ (log[i].args[2] = NullValue) = (event.in[2] = nullptr)
         /\ \E j \in Steps("framework") :
              j < i /\ log[j].what = "AbstractTileTool::mapDocumentChanged"

\* The first document of the session: no old map, a new one.
C8_Witness ==
  /\ Handled /\ event.kind = "mapDocumentChanged"
  /\ event.in[1] = nullptr /\ event.in[2] # nullptr
  /\ \E i \in Invoked : log[i].args[1] = NullValue
                         /\ log[i].args[2].t = "EditableMap"

\* What activate and deactivate do, in order, but for the scene the
\* 'deactivated' hook observes.
ActivationOrder ==
  /\ event.kind = "activate" =>
       /\ log[1].op = "framework"
       /\ log[1].what = "AbstractTileTool::activate"
       /\ log[1].scene = event.before
       /\ \A i \in DOMAIN log \ {1} : log[i].scene = event.in[1]
       /\ log[2].op = "lookup" /\ log[2].what = "activated"
       /\ mScene = event.in[1] /\ mScene # nullptr
  /\ event.kind = "deactivate" =>
       /\ log[1].op = "framework"
       /\ log[1].what = "AbstractTileTool::deactivate"
       /\ log[2].op = "lookup" /\ log[2].what = "deactivated"
       /\ mScene = nullptr
  /\ event.kind \notin {"activate", "deactivate"} =>
       /\ mScene = event.before
       /\ \A i \in DOMAIN log : log[i].scene = event.before

\* C9 as stated: activate runs the framework, stores the scene, invokes
\* 'activated'; deactivate runs the framework, invokes 'deactivated', clears
\* the scene; for any sequence of events both hooks observe a non-null scene.
C9_BothHooksSeeAScene ==
  Handled =>
    /\ ActivationOrder
    /\ \A i \in Invoked :
         log[i].what \in {"activated", "deactivated"} =>
           log[i].scene # nullptr

\* C9 (amended): activate runs the framework activation, stores the scene,
\* then invokes 'activated', which observes that scene; deactivate runs the
\* framework deactivation, invokes 'deactivated' with the scene as it was
\* before the event, and only then clears it; no other handler changes the
\* scene.  So 'deactivated' observes a non-null scene when the tool was
\* active and a null one when deactivate comes to a tool that was not.
C9_SceneFromActivateToDeactivate ==
  Handled =>
    /\ ActivationOrder
    /\ event.kind = "deactivate" =>
         \A i \in DOMAIN log : log[i].scene = event.before
    /\ \A i \in Invoked :
         /\ log[i].what = "activated" => log[i].scene # nullptr
         /\ log[i].what = "deactivated" =>
              (log[i].scene # nullptr) = (event.before # nullptr)

\* An active tool is deactivated: the hook saw the scene, now it is gone.
C9_Witness ==
  /\ Handled /\ event.kind = "deactivate" /\ event.before # nullptr
  /\ \E i \in Invoked : log[i].what = "deactivated"
                         /\ log[i].scene = event.before
  /\ mScene = nullptr

\* C10 as stated: an accepted object names the tool, the placeholder is
\* kept only for rejected objects, and the name is never empty.
C10_NameIsTheNameProperty ==
  Constructed =>
    /\ validation.ret => mName = mScriptObject["name"].s
    /\ mName = UnnamedTool => ~validation.ret
    /\ mName # ""

\* C10 (amended): an accepted object whose 'name' is a non-empty string
\* names the tool; the placeholder is kept for the objects validation
\* rejects and for the accepted empty name; the name is never empty.
C10_NonEmptyNameIsTheNameProperty ==
  Constructed =>
    /\ validation.ret /\ mScriptObject["name"].s # "" =>
         mName = mScriptObject["name"].s
    /\ ~validation.ret \/ mScriptObject["name"].s = "" =>
         mName = UnnamedTool
    /\ mName # ""

\* The empty name: accepted by validation, and the tool is unnamed.
C10_Witness ==
  /\ Constructed /\ validation.ret
  /\ mScriptObject["name"] = StringProp("")
  /\ mName = UnnamedTool

====
